---- MODULE Spec2Model ----
(***************************************************************************)
(* The AppInstance reconciler (internal/controller/appinstance_controller) *)
(* against an object store holding AppInstance objects and Pods.           *)
(*                                                                         *)
(* One reconciliation pass is Reconcile: getAppInstance, getPodList,       *)
(* scalePods (createPods | deletePods), updateStatus.  Every call to the   *)
(* store is one step, so that the store may change between two calls.      *)
(***************************************************************************)
EXTENDS Integers, Sequences, FiniteSets, TLC

\* Largest spec.size given to an AppInstance.
MaxSize == 2
\* Number of disturbances (external changes, transient store failures).
MaxChanges == 3

\* AppInstance names of the namespace; Tracked are those Spec reconciles.
Names == {"app", "web"}
Tracked == {"app"}

\* spec.size is a plain int (appinstance_types.go:28): no minimum.
SizeValues == {0 - 1} \cup (0 .. MaxSize)

NoOwner == ""
Nil == ""

VARIABLES
  apps,      \* store: name -> [exists, size, nodes]   (AppInstance objects)
  pods,      \* store: set of [name, label, owner, dangling]   (Pods)
  queue,     \* work queue of the controller: name -> a request is pending
  stale,     \* name -> what happened to the AppInstance since the pass read it
  budget,    \* disturbances left
  pc,        \* name -> position of the pass for that key
  app,       \* name -> the pass's copy of the AppInstance ([size])
  podList,   \* name -> the pass's podList.Items (pod names, listing order)
  i,         \* name -> loop index of createPods / deletePods
  err,       \* name -> error the pass returns (Nil: success)
  calls,     \* name -> store calls issued by the pass so far
  dirty,     \* name -> store changed by someone else during the pass
  prev       \* name -> summary of the last completed pass, while still valid

vars == <<apps, pods, queue, stale, budget, pc, app, podList, i, err, calls, dirty, prev>>

----------------------------------------------------------------------------
\* Pure helpers

\* (fault) pod names numbered from one.
PodNameFromOne(name, idx) == name \o "-pod-" \o ToString(idx + 1)

\* fmt.Sprintf("%s-pod-%d", app.Name, i)
PodName(name, idx) == name \o "-pod-" \o ToString(idx)

\* Names an outside actor may give a pod in the namespace of instance x.
ExtNames(x) == {PodName(x, k) : k \in 0 .. (MaxSize - 1)} \cup {x \o "-stray"}

RECURSIVE Perms(_)
Perms(S) ==
  IF S = {} THEN {<<>>}
  ELSE UNION {{<<e>> \o p : p \in Perms(S \ {e})} : e \in S}

Range(s) == {s[k] : k \in 1 .. Len(s)}

\* Pods matching client.MatchingLabels{"app": name}
Labelled(x) == {p \in pods : p.label = x}
LabelledNames(x) == {p.name : p \in Labelled(x)}
StoreNames == {p.name : p \in pods}

\* (fault) the list call without its label selector.
ListingsUnfiltered(x) == Perms(StoreNames)

\* Results client.List may return: the matching pods in any order.
Listings(x) == Perms(LabelledNames(x))

\* (fault) the two comparisons the wrong way round.
ScaleDecisionSwapped(currentSize, desiredSize) ==
  IF currentSize > desiredSize THEN "create"
  ELSE IF currentSize < desiredSize THEN "delete"
  ELSE "status"

\* scalePods: the decision taken from the two counts.
ScaleDecision(currentSize, desiredSize) ==
  IF currentSize < desiredSize THEN "create"
  ELSE IF currentSize > desiredSize THEN "delete"
  ELSE "status"

\* (fault) the create loop runs one turn too many.
CreateLoopInclusive(idx, desiredSize) == idx <= desiredSize

\* createPods: for i := currentSize; i < desiredSize; i++
CreateLoopCond(idx, desiredSize) == idx < desiredSize

\* (fault) the delete loop stops one turn early.
DeleteLoopStrict(idx, desiredSize) == idx > desiredSize

\* deletePods: for i := currentSize - 1; i >= desiredSize; i--
DeleteLoopCond(idx, desiredSize) == idx >= desiredSize

\* deletePods: &podList.Items[i], the pod the i-th turn deletes.
DeleteTarget(items, idx) == items[idx + 1]

\* deletePods: the pods a loop over items deletes when no deletion fails.
Removed(items, desiredSize) ==
  {DeleteTarget(items, k) :
     k \in {k \in 0 .. (Len(items) - 1) : DeleteLoopCond(k, desiredSize)}}

\* (fault) the projection skips the first item.
PodNamesSkipFirst(items) == [k \in 1 .. (Len(items) - 1) |-> items[k + 1]]

\* updateStatus: podNames = names of podList.Items, in order
PodNamesOf(items) == [k \in 1 .. Len(items) |-> items[k]]

\* Reconcile, lines 49-51: where the pass goes when scalePods returned e.
AfterScale(e) == IF e # Nil THEN "done" ELSE "status"

\* (fault) NotFound is returned like any other error.
AfterGetNoNotFound(r) ==
  IF r = "ok" THEN [pc |-> "list", err |-> ""] ELSE [pc |-> "done", err |-> r]

\* (fault) every error of the lookup is taken for NotFound.
AfterGetSwallowsErrors(r) ==
  IF r = "ok" THEN [pc |-> "list", err |-> ""] ELSE [pc |-> "done", err |-> ""]

\* Reconcile, lines 34-40: where the pass goes when getAppInstance returned r.
AfterGet(r) ==
  IF r = "ok" THEN [pc |-> "list", err |-> Nil]
  ELSE IF r = "notfound" THEN [pc |-> "done", err |-> Nil]
  ELSE [pc |-> "done", err |-> r]

\* One store call of a pass: the verb, the object's name, the store's answer.
Call(op, name, res) == [op |-> op, name |-> name, res |-> res]
NoPrev == [kind |-> "none", M |-> 0, N |-> 0, k |-> 0]

\* Instances an outside change to pod p concerns.
Touch(p) == {p.label} \cup {y \in Names : p.name \in ExtNames(y)}

\* Bookkeeping of an outside change that concerns the instances in T.
Disturb(T) ==
  /\ dirty' = [y \in Names |-> dirty[y] \/ (y \in T /\ pc[y] # "idle")]
  /\ prev' = [y \in Names |-> IF y \in T THEN NoPrev ELSE prev[y]]

----------------------------------------------------------------------------
Init ==
  /\ apps = [x \in Names |-> [exists |-> FALSE, size |-> 0, nodes |-> <<>>]]
  /\ pods = {}
  /\ queue = [x \in Names |-> FALSE]
  /\ stale = [x \in Names |-> "fresh"]
  /\ budget = MaxChanges
  /\ pc = [x \in Names |-> "idle"]
  /\ app = [x \in Names |-> [size |-> 0]]
  /\ podList = [x \in Names |-> <<>>]
  /\ i = [x \in Names |-> 0]
  /\ err = [x \in Names |-> Nil]
  /\ calls = [x \in Names |-> <<>>]
  /\ dirty = [x \in Names |-> FALSE]
  /\ prev = [x \in Names |-> NoPrev]

----------------------------------------------------------------------------
\* (fault) the answer is logged but the pass does not return.
FinishWithoutReturn(x, op, n, res) ==
  /\ pc' = pc
  /\ err' = [err EXCEPT ![x] = IF res = "ok" THEN "" ELSE res]
  /\ calls' = [calls EXCEPT ![x] = Append(@, [op |-> op, name |-> n, res |-> res])]

\* The pass ends after store call op on n was answered res ("ok": success).
Finish(x, op, n, res) ==
  /\ pc' = [pc EXCEPT ![x] = "done"]
  /\ err' = [err EXCEPT ![x] = IF res = "ok" THEN Nil ELSE res]
  /\ calls' = [calls EXCEPT ![x] = Append(@, Call(op, n, res))]

\* A store call fails for a reason of its own (network, throttling).
Transient(x, op, n) ==
  /\ budget > 0
  /\ budget' = budget - 1
  /\ Finish(x, op, n, "transient")

\* Answers r.Get may give for key x.
GetResults(x) ==
  (IF apps[x].exists THEN {"ok"} ELSE {"notfound"})
    \cup (IF budget > 0 THEN {"transient"} ELSE {})

\* Reconcile, lines 33-40: the request is taken off the queue and the
\* AppInstance is fetched.
GetAppInstance(x) ==
  /\ pc[x] = "idle"
  /\ queue[x]
  /\ queue' = [queue EXCEPT ![x] = FALSE]
  /\ stale' = [stale EXCEPT ![x] = "fresh"]
  /\ dirty' = [dirty EXCEPT ![x] = FALSE]
  /\ \E r \in GetResults(x) :
       /\ app' = [app EXCEPT ![x] = IF r = "ok" THEN [size |-> apps[x].size] ELSE @]
       /\ pc' = [pc EXCEPT ![x] = AfterGet(r).pc]
       /\ err' = [err EXCEPT ![x] = AfterGet(r).err]
       /\ calls' = [calls EXCEPT ![x] = <<Call("get", x, r)>>]
       /\ budget' = IF r = "transient" THEN budget - 1 ELSE budget
  /\ UNCHANGED <<apps, pods, podList, i, prev>>

\* getPodList: one r.List.
GetPodList(x) ==
  /\ pc[x] = "list"
  /\ UNCHANGED <<apps, pods, queue, stale, app, dirty, prev>>
  /\ \/ \E l \in Listings(x) :
          /\ podList' = [podList EXCEPT ![x] = l]
          /\ pc' = [pc EXCEPT ![x] = "scale"]
          /\ calls' = [calls EXCEPT ![x] = Append(@, Call("list", x, "ok"))]
          /\ UNCHANGED <<budget, i, err>>
     \/ /\ Transient(x, "list", x)
        /\ UNCHANGED <<podList, i>>

\* scalePods, lines 82-90.
ScalePods(x) ==
  /\ pc[x] = "scale"
  /\ LET currentSize == Len(podList[x])
         desiredSize == app[x].size
         d == ScaleDecision(currentSize, desiredSize)
     IN /\ pc' = [pc EXCEPT ![x] = d]
        /\ i' = [i EXCEPT ![x] = IF d = "delete" THEN currentSize - 1 ELSE currentSize]
  /\ UNCHANGED <<apps, pods, queue, stale, budget, app, podList, err, calls, dirty, prev>>

\* createPods, line 97, read backwards: the index a pod was created with.
PodIndex(name, n) == CHOOSE k \in 0 .. MaxSize : PodName(name, k) = n

\* (fault) the pod is built without its controller reference.
NewPodNoOwner(x, n) ==
  [name |-> n, label |-> x, owner |-> NoOwner, dangling |-> FALSE]

\* createPods, lines 95-114: the pod object handed to r.Create.  Its
\* controller reference carries the UID of the AppInstance the pass read,
\* which is gone from the store when that AppInstance was replaced since.
NewPod(x, n) ==
  [name |-> n, label |-> x, owner |-> x, dangling |-> stale[x] = "replaced"]

\* createPods: one turn of the loop (one r.Create), or the loop's exit.
CreatePods(x) ==
  /\ pc[x] = "create"
  /\ UNCHANGED <<apps, stale, app, podList, dirty, prev>>
  /\ IF CreateLoopCond(i[x], app[x].size)
     THEN LET n == PodName(x, i[x]) IN
          \/ /\ n \notin StoreNames
             /\ pods' = pods \cup {NewPod(x, n)}
             /\ queue' = [queue EXCEPT ![x] = TRUE]
             /\ i' = [i EXCEPT ![x] = @ + 1]
             /\ calls' = [calls EXCEPT ![x] = Append(@, Call("create", n, "ok"))]
             /\ UNCHANGED <<budget, pc, err>>
          \/ /\ n \in StoreNames
             /\ Finish(x, "create", n, "exists")
             /\ UNCHANGED <<pods, queue, budget, i>>
          \/ /\ Transient(x, "create", n)
             /\ UNCHANGED <<pods, queue, i>>
     ELSE /\ pc' = [pc EXCEPT ![x] = AfterScale(Nil)]
          /\ UNCHANGED <<pods, queue, budget, i, err, calls>>

\* deletePods: one turn of the loop (one r.Delete), or the loop's exit.
DeletePods(x) ==
  /\ pc[x] = "delete"
  /\ UNCHANGED <<apps, stale, app, podList, dirty, prev>>
  /\ IF DeleteLoopCond(i[x], app[x].size)
     THEN IF i[x] < 0 \/ i[x] >= Len(podList[x])
          THEN \* podList.Items[i]: index out of range
               /\ pc' = [pc EXCEPT ![x] = "done"]
               /\ err' = [err EXCEPT ![x] = "panic"]
               /\ UNCHANGED <<pods, queue, budget, i, calls>>
          ELSE LET n == DeleteTarget(podList[x], i[x]) IN
               \/ /\ n \in StoreNames
                  /\ pods' = {p \in pods : p.name # n}
                  /\ queue' = [y \in Names |->
                                 queue[y] \/ (\E p \in pods : p.name = n /\ p.owner = y)]
                  /\ i' = [i EXCEPT ![x] = @ - 1]
                  /\ calls' = [calls EXCEPT ![x] = Append(@, Call("delete", n, "ok"))]
                  /\ UNCHANGED <<budget, pc, err>>
               \/ /\ n \notin StoreNames
                  /\ Finish(x, "delete", n, "notfound")
                  /\ UNCHANGED <<pods, queue, budget, i>>
               \/ /\ Transient(x, "delete", n)
                  /\ UNCHANGED <<pods, queue, i>>
     ELSE /\ pc' = [pc EXCEPT ![x] = AfterScale(Nil)]
          /\ UNCHANGED <<pods, queue, budget, i, err, calls>>

\* updateStatus: Status.Nodes is filled from podList and written.
UpdateStatus(x) ==
  /\ pc[x] = "status"
  /\ UNCHANGED <<pods, stale, app, podList, i, dirty, prev>>
  /\ LET podNames == PodNamesOf(podList[x]) IN
     \/ /\ apps[x].exists /\ stale[x] = "fresh"
        /\ apps' = [apps EXCEPT ![x].nodes = podNames]
        /\ queue' = [queue EXCEPT ![x] = @ \/ (apps[x].nodes # podNames)]
        /\ Finish(x, "status", x, "ok")
        /\ UNCHANGED budget
     \/ /\ ~apps[x].exists
        /\ Finish(x, "status", x, "notfound")
        /\ UNCHANGED <<apps, queue, budget>>
     \/ /\ apps[x].exists /\ stale[x] # "fresh"
        /\ Finish(x, "status", x, "conflict")
        /\ UNCHANGED <<apps, queue, budget>>
     \/ /\ Transient(x, "status", x)
        /\ UNCHANGED <<apps, queue>>

\* The store calls of the pass with verb op; those the store acknowledged.
Issued(x, op) == SelectSeq(calls[x], LAMBDA c : c.op = op)
Acked(x, op) == SelectSeq(calls[x], LAMBDA c : c.op = op /\ c.res = "ok")

\* What the completed pass leaves for the next one to be compared with.
Summary(x) ==
  IF dirty[x] THEN NoPrev
  ELSE [kind |-> IF err[x] = Nil THEN "ok"
                 ELSE IF calls[x][Len(calls[x])].op = "create" THEN "growfail"
                 ELSE "fail",
        M |-> Len(podList[x]), N |-> app[x].size, k |-> Len(Acked(x, "create"))]

\* Reconcile returns; the controller requeues the request on an error.
Return(x) ==
  /\ pc[x] = "done"
  /\ pc' = [pc EXCEPT ![x] = "idle"]
  /\ queue' = [queue EXCEPT ![x] = @ \/ (err[x] # Nil)]
  /\ prev' = [prev EXCEPT ![x] = Summary(x)]
  /\ podList' = [podList EXCEPT ![x] = <<>>]
  /\ i' = [i EXCEPT ![x] = 0]
  /\ app' = [app EXCEPT ![x] = [size |-> 0]]
  /\ err' = [err EXCEPT ![x] = Nil]
  /\ calls' = [calls EXCEPT ![x] = <<>>]
  /\ dirty' = [dirty EXCEPT ![x] = FALSE]
  /\ UNCHANGED <<apps, pods, stale, budget>>

Pass(x) ==
  \/ GetAppInstance(x)
  \/ GetPodList(x)
  \/ ScalePods(x)
  \/ CreatePods(x)
  \/ DeletePods(x)
  \/ UpdateStatus(x)
  \/ Return(x)

----------------------------------------------------------------------------
\* The other users of the store.

CreateInstance(x, n) ==
  /\ budget > 0 /\ ~apps[x].exists
  /\ budget' = budget - 1
  /\ apps' = [apps EXCEPT ![x] = [exists |-> TRUE, size |-> n, nodes |-> <<>>]]
  /\ queue' = [queue EXCEPT ![x] = TRUE]
  /\ stale' = [stale EXCEPT ![x] = "replaced"]
  /\ Disturb({x})
  /\ UNCHANGED <<pods, pc, app, podList, i, err, calls>>

SetSize(x, n) ==
  /\ budget > 0 /\ apps[x].exists /\ apps[x].size # n
  /\ budget' = budget - 1
  /\ apps' = [apps EXCEPT ![x].size = n]
  /\ queue' = [queue EXCEPT ![x] = TRUE]
  /\ stale' = [stale EXCEPT ![x] = IF @ = "replaced" THEN @ ELSE "updated"]
  /\ Disturb({x})
  /\ UNCHANGED <<pods, pc, app, podList, i, err, calls>>

\* The pods it controls are left to the garbage collector.
DeleteInstance(x) ==
  /\ budget > 0 /\ apps[x].exists
  /\ budget' = budget - 1
  /\ apps' = [apps EXCEPT ![x] = [exists |-> FALSE, size |-> 0, nodes |-> <<>>]]
  /\ pods' = {IF p.owner = x THEN [p EXCEPT !.dangling = TRUE] ELSE p : p \in pods}
  /\ queue' = [queue EXCEPT ![x] = TRUE]
  /\ stale' = [stale EXCEPT ![x] = "replaced"]
  /\ Disturb({x})
  /\ UNCHANGED <<pc, app, podList, i, err, calls>>

\* Cascading deletion of a pod whose controller is gone.
GarbageCollect(p) ==
  /\ p \in pods /\ p.dangling
  /\ pods' = pods \ {p}
  /\ queue' = [y \in Names |-> queue[y] \/ p.owner = y]
  /\ Disturb(Touch(p))
  /\ UNCHANGED <<apps, stale, budget, pc, app, podList, i, err, calls>>

ExtDeletePod(p) ==
  /\ budget > 0 /\ p \in pods
  /\ budget' = budget - 1
  /\ pods' = pods \ {p}
  /\ queue' = [y \in Names |-> queue[y] \/ p.owner = y]
  /\ Disturb(Touch(p))
  /\ UNCHANGED <<apps, stale, pc, app, podList, i, err, calls>>

ExtCreatePod(n, l) ==
  /\ budget > 0 /\ n \notin StoreNames
  /\ budget' = budget - 1
  /\ LET p == [name |-> n, label |-> l, owner |-> NoOwner, dangling |-> FALSE] IN
     /\ pods' = pods \cup {p}
     /\ Disturb(Touch(p))
  /\ UNCHANGED <<apps, queue, stale, pc, app, podList, i, err, calls>>

\* The informers' periodic resync hands every AppInstance to the reconciler.
Resync(x) ==
  /\ apps[x].exists /\ ~queue[x]
  /\ queue' = [queue EXCEPT ![x] = TRUE]
  /\ UNCHANGED <<apps, pods, stale, budget, pc, app, podList, i, err, calls, dirty, prev>>

\* From here on nobody else changes the store and no call fails transiently.
Settle ==
  /\ budget > 0
  /\ budget' = 0
  /\ UNCHANGED <<apps, pods, queue, stale, pc, app, podList, i, err, calls, dirty, prev>>

Environment ==
  \/ \E x \in Tracked, n \in SizeValues : CreateInstance(x, n)
  \/ \E x \in Tracked, n \in SizeValues : SetSize(x, n)
  \/ \E x \in Tracked : DeleteInstance(x)
  \/ \E p \in pods : GarbageCollect(p)
  \/ \E p \in pods : ExtDeletePod(p)
  \/ \E x \in Tracked : \E n \in ExtNames(x), l \in Names : ExtCreatePod(n, l)
  \/ \E x \in Tracked : Resync(x)
  \/ Settle

Next ==
  \/ \E x \in Tracked : Pass(x)
  \/ Environment

Spec == Init /\ [][Next]_vars

\* The reconciler with users who only create AppInstances and change their
\* size: nobody but the reconciler touches a pod.
CoreNext ==
  \/ \E x \in Tracked : Pass(x)
  \/ \E x \in Tracked, n \in SizeValues : CreateInstance(x, n)
  \/ \E x \in Tracked, n \in SizeValues : SetSize(x, n)
  \/ \E x \in Tracked : Resync(x)
  \/ Settle

CoreSpec == Init /\ [][CoreNext]_vars

\* The manager reconciles every AppInstance: passes for different keys run
\* on their own workers and interleave call by call.
PairNext ==
  \/ \E x \in Names : Pass(x)
  \/ \E x \in Names, n \in SizeValues : CreateInstance(x, n)
  \/ \E x \in Names, n \in SizeValues : SetSize(x, n)
  \/ \E x \in Names : Resync(x)
  \/ Settle

PairSpec == Init /\ [][PairNext]_vars

\* The work queue hands every pending request to a worker, a worker runs its
\* pass to the end, and the resync keeps coming.
Fairness == \A x \in Tracked : WF_vars(Pass(x)) /\ WF_vars(Resync(x))
FairSpec == Spec /\ Fairness
FairCoreSpec == CoreSpec /\ Fairness

----------------------------------------------------------------------------
\* Vocabulary of the properties

Done(x) == pc[x] = "done"
\* The pass read its AppInstance.
Found(x) == calls[x] # <<>> /\ calls[x][1].res = "ok"
\* The pass read its pod list.
Listed(x) == Len(Issued(x, "list")) = 1 /\ Len(Acked(x, "list")) = 1
\* The pass returns success, having found its AppInstance.
Succeeded(x) == Done(x) /\ err[x] = Nil /\ Found(x)
\* scalePods returned nil: the pass is at, or past, updateStatus.
Scaled(x) == pc[x] = "status" \/ (Done(x) /\ Len(Issued(x, "status")) = 1)
CallNames(cs) == {cs[k].name : k \in 1 .. Len(cs)}
StatusNames(x) == Range(apps[x].nodes)

----------------------------------------------------------------------------
\* C1: when a pass returns success and nobody else changed the store during
\* it, the number of pods carrying the instance's label equals the desired
\* size the pass read.
C1_SizeReached ==
  \A x \in Tracked :
    (Succeeded(x) /\ ~dirty[x]) =>
      /\ app[x].size >= 0
      /\ Cardinality(Labelled(x)) = app[x].size
      /\ app[x].size = apps[x].size

\* A successful undisturbed pass that started from one pod and created more.
C1_Witness ==
  \E x \in Tracked :
    /\ Succeeded(x) /\ ~dirty[x]
    /\ Len(podList[x]) = 1 /\ Len(Acked(x, "create")) = 1

\* C2 (as claimed): when a pass returns success and nobody else changed the
\* store during it, Status.Nodes lists exactly the pods that carry the label
\* after the pass's creates and deletes.
C2_StatusIsPostAction ==
  \A x \in Tracked :
    (Succeeded(x) /\ ~dirty[x]) =>
      /\ StatusNames(x) = LabelledNames(x)
      /\ Len(apps[x].nodes) = Cardinality(LabelledNames(x))

\* C3 (as claimed): once nothing disturbs the store any more, the number of
\* labelled pods of an existing instance with a size >= 0 eventually equals
\* that size.
C3_Converges ==
  \A x \in Tracked :
    [](  (budget = 0 /\ apps[x].exists /\ apps[x].size >= 0)
      => <>(Cardinality(Labelled(x)) = apps[x].size))

\* C4: a pass that listed no pod for an instance of size N >= 0 and whose
\* creations all succeeded has issued exactly the N creates x-pod-0 ..
\* x-pod-(N-1), in that order, and no delete.
C4_CreatesFromEmpty ==
  \A x \in Tracked :
    (Scaled(x) /\ Listed(x) /\ Len(podList[x]) = 0 /\ app[x].size >= 0) =>
      /\ Len(Issued(x, "create")) = app[x].size
      /\ \A k \in 1 .. Len(Issued(x, "create")) :
           Issued(x, "create")[k].name = x \o "-pod-" \o ToString(k - 1)
      /\ Cardinality(CallNames(Issued(x, "create"))) = app[x].size
      /\ Issued(x, "delete") = <<>>

\* Two pods were created from nothing.
C4_Witness ==
  \E x \in Tracked :
    /\ Scaled(x) /\ Listed(x) /\ Len(podList[x]) = 0
    /\ Len(Acked(x, "create")) = 2

\* C5: a pass that listed M pods for a size N, M > N >= 0, and whose
\* deletions all succeeded has issued exactly M - N deletes, on distinct
\* listed pods, and no create; N listed pods are left, all of them live when
\* nobody else changed the store during the pass.
C5_DeletesExcess ==
  \A x \in Tracked :
    (Scaled(x) /\ Listed(x) /\ Len(podList[x]) > app[x].size /\ app[x].size >= 0) =>
      LET gone == CallNames(Issued(x, "delete"))
          kept == Range(podList[x]) \ gone
      IN /\ Len(Issued(x, "delete")) = Len(podList[x]) - app[x].size
         /\ Issued(x, "delete") = Acked(x, "delete")
         /\ Cardinality(gone) = Len(podList[x]) - app[x].size
         /\ gone \subseteq Range(podList[x])
         /\ Issued(x, "create") = <<>>
         /\ Cardinality(kept) = app[x].size
         /\ gone \cap StoreNames = {} \/ dirty[x]
         /\ ~dirty[x] => (kept = LabelledNames(x))

\* Two of three listed pods were deleted, leaving one.
C5_Witness ==
  \E x \in Tracked :
    /\ Scaled(x) /\ Listed(x) /\ ~dirty[x]
    /\ Len(podList[x]) = 3 /\ app[x].size = 1
    /\ Len(Acked(x, "delete")) = 2

\* C6: a pass that follows a successful pass, with no change by anybody else
\* since that pass began, issues no create and no delete.
C6_Idempotent ==
  \A x \in Tracked :
    (prev[x].kind = "ok" /\ pc[x] # "idle") =>
      /\ Issued(x, "create") = <<>>
      /\ Issued(x, "delete") = <<>>

\* The second pass has run to its end after a first pass that created pods.
C6_Witness ==
  \E x \in Tracked :
    /\ prev[x].kind = "ok" /\ prev[x].k > 0
    /\ Succeeded(x) /\ Listed(x)

\* C7 (as claimed): after a growth pass from M pods toward N that created k
\* pods before a creation failed, the next pass, with no change by anybody
\* else and no transient failure of its own, creates the remaining N - M - k.
C7_ResumesGrowth ==
  \A x \in Tracked :
    (Done(x) /\ prev[x].kind = "growfail" /\ err[x] # "transient") =>
      Len(Acked(x, "create")) = prev[x].N - prev[x].M - prev[x].k

\* C8 (as claimed): a pass in which a create or a delete failed has written
\* the status before it returns the failure.
C8_StatusOnFailure ==
  \A x \in Tracked :
    (Done(x) /\ \E k \in 1 .. Len(calls[x]) :
                  calls[x][k].op \in {"create", "delete"} /\ calls[x][k].res # "ok")
      => Len(Issued(x, "status")) > 0

\* A store call of the current pass of x failed.
StoreFailed(x) == err[x] \notin {Nil, "panic"}

C10_NotFoundIsSilent ==
  \A x \in Tracked :
    (calls[x] # <<>> /\ calls[x][1].res = "notfound") =>
      /\ Done(x) /\ err[x] = Nil
      /\ Len(calls[x]) = 1

\* The instance was deleted, its pods still exist, and the pass has returned.
C10_Witness ==
  \E x \in Tracked :
    /\ Done(x) /\ calls[x] = <<Call("get", x, "notfound")>>
    /\ Labelled(x) # {}

----------------------------------------------------------------------------
\* C11: when a create or a delete of a pass fails, it is the last store call
\* of the pass, the pass returns that failure, and the pods created (deleted)
\* earlier in the pass are still there (gone) unless somebody else changed
\* the store meanwhile: nothing is rolled back.
C11_PartialBatch ==
  \A x \in Tracked :
    \A j \in 1 .. Len(calls[x]) :
      (calls[x][j].op \in {"create", "delete"} /\ calls[x][j].res # "ok") =>
        /\ j = Len(calls[x])
        /\ Done(x) /\ err[x] = calls[x][j].res
        /\ ~dirty[x] =>
             \A k \in 1 .. (j - 1) :
               /\ (calls[x][k].op = "create" /\ calls[x][k].res = "ok")
                    => calls[x][k].name \in LabelledNames(x)
               /\ (calls[x][k].op = "delete" /\ calls[x][k].res = "ok")
                    => calls[x][k].name \notin StoreNames

\* The second create of a pass failed after the first had succeeded.
C11_Witness ==
  \E x \in Tracked :
    /\ Done(x) /\ ~dirty[x]
    /\ Len(Issued(x, "create")) = 2 /\ Len(Acked(x, "create")) = 1
    /\ calls[x][Len(calls[x])].res = "transient"

----------------------------------------------------------------------------
\* A shrink of x whose deletions all succeeded, for a size >= 0.
Shrunk(x) ==
  Scaled(x) /\ Listed(x) /\ Len(podList[x]) > app[x].size /\ app[x].size >= 0

\* C12 (as claimed): the pods a shrink removes depend only on the set of
\* pods listed and on the size: whatever other order the store could have
\* returned the same pods in, the pass would have removed the same pods.
C12_OrderIndependent ==
  \A x \in Tracked :
    Shrunk(x) =>
      \A l \in Perms(Range(podList[x])) :
        Removed(l, app[x].size) = CallNames(Acked(x, "delete"))

----------------------------------------------------------------------------
\* C13: a pass issues creates only after listing fewer pods than the size,
\* deletes only after listing more, never both, and nothing of either when
\* the two are equal; when scalePods returns nil the deficit has been created.
C13_OneDecision ==
  \A x \in Tracked :
    LET M == Len(podList[x])
        N == app[x].size
    IN /\ Issued(x, "create") # <<>> => (Listed(x) /\ M < N)
       /\ Issued(x, "delete") # <<>> => (Listed(x) /\ M > N)
       /\ Issued(x, "create") = <<>> \/ Issued(x, "delete") = <<>>
       /\ (Listed(x) /\ pc[x] # "scale" /\ M = N) =>
            (Issued(x, "create") = <<>> /\ Issued(x, "delete") = <<>> /\ Scaled(x))
       /\ (Scaled(x) /\ Listed(x) /\ M < N) => Len(Acked(x, "create")) = N - M
       /\ (Scaled(x) /\ Listed(x) /\ M > N) => Len(Acked(x, "delete")) = M - N

\* A pass is about to write the status after deleting one of two listed pods.
C13_Witness ==
  \E x \in Tracked :
    /\ pc[x] = "status"
    /\ Len(podList[x]) = 2 /\ app[x].size = 1
    /\ Len(Issued(x, "delete")) = 1 /\ Issued(x, "create") = <<>>

----------------------------------------------------------------------------
\* C14: when the lookup of the AppInstance fails with an error other than
\* NotFound, or the listing fails, that call was issued once and is the last
\* call of the pass, the pass returns that error, and it has issued no
\* create, delete or status update.
C14_ReadFailure ==
  \A x \in Tracked :
    \A j \in 1 .. Len(calls[x]) :
      (calls[x][j].op \in {"get", "list"} /\ calls[x][j].res \notin {"ok", "notfound"}) =>
        /\ j = Len(calls[x])
        /\ Done(x) /\ err[x] = calls[x][j].res
        /\ Len(Issued(x, calls[x][j].op)) = 1
        /\ Issued(x, "create") = <<>>
        /\ Issued(x, "delete") = <<>>
        /\ Issued(x, "status") = <<>>

\* The listing failed while the instance had pods.
C14_Witness ==
  \E x \in Tracked :
    /\ Done(x) /\ err[x] = "transient"
    /\ Len(calls[x]) = 2 /\ calls[x][2].op = "list"
    /\ Labelled(x) # {}

----------------------------------------------------------------------------
\* C15: every pod a pass of AppInstance x created is, as long as nobody else
\* touched the pods of x, the one pod of that name, carries the label x and
\* is controlled by x; and every pod that has a controller has one
\* controller, an AppInstance, whose name is the pod's label.
C15_LabelAndOwner ==
  /\ \A x \in Tracked :
       ~dirty[x] =>
         \A j \in 1 .. Len(Acked(x, "create")) :
           /\ Cardinality({p \in pods : p.name = Acked(x, "create")[j].name}) = 1
           /\ \A p \in pods :
                p.name = Acked(x, "create")[j].name => (p.label = x /\ p.owner = x)
  /\ \A p \in pods : p.owner # NoOwner => (p.owner \in Names /\ p.label = p.owner)

\* A pass has created two pods next to a pod somebody else labelled.
C15_Witness ==
  \E x \in Tracked :
    /\ ~dirty[x] /\ Len(Acked(x, "create")) = 2
    /\ \E p \in pods : p.owner = NoOwner

----------------------------------------------------------------------------
\* C16: when only passes and changes of the size act on the store, the k
\* live pods of AppInstance x are named x-pod-0 .. x-pod-(k-1), so that the
\* name createPods builds from the length of the listing is not a live name.
C16_DenseNames ==
  \A x \in Tracked :
    /\ LabelledNames(x) = {PodName(x, k) : k \in 0 .. (Cardinality(Labelled(x)) - 1)}
    /\ (pc[x] = "create" /\ i[x] = Len(podList[x]) /\ CreateLoopCond(i[x], app[x].size))
         => PodName(x, i[x]) \notin StoreNames

----------------------------------------------------------------------------
\* C17: a shrinking pass that completed without error has deleted the
\* entries of its listing at positions currentSize-1 down to desiredSize, in
\* that order; the pods it kept are the first desiredSize entries of the
\* listing, and each of them was created with a lower index than every pod
\* it deleted.
C17_KeepsLowest ==
  \A x \in Tracked :
    Shrunk(x) =>
      LET M == Len(podList[x])
          N == app[x].size
          D == Issued(x, "delete")
      IN /\ Len(D) = M - N
         /\ \A k \in 1 .. Len(D) : D[k].name = DeleteTarget(podList[x], M - k)
         /\ ~dirty[x] =>
              LabelledNames(x) = {podList[x][k] : k \in 1 .. N}
         /\ \A k \in 1 .. N : \A d \in 1 .. Len(D) :
              PodIndex(x, podList[x][k]) < PodIndex(x, D[d].name)

----------------------------------------------------------------------------
\* C18: whatever size the AppInstance asks for, every position at which
\* deletePods reads its listing lies within the listing.
C18_IndexInRange ==
  \A x \in Tracked :
    (pc[x] = "delete" /\ DeleteLoopCond(i[x], app[x].size)) =>
      (0 <= i[x] /\ i[x] < Len(podList[x]))

----------------------------------------------------------------------------
\* C19: a step of a pass for AppInstance x adds only pods labelled with and
\* controlled by x, removes only pods its own listing names, and leaves the
\* pods, the size and the status of every other AppInstance as they were,
\* also while a pass for another AppInstance is under way.
Frame(x) ==
  /\ \A p \in pods' \ pods : p.label = x /\ p.owner = x
  /\ \A p \in pods \ pods' : p.name \in Range(podList[x]) /\ p.label = x
  /\ \A y \in Names \ {x} : apps'[y] = apps[y] /\ Labelled(y)' = Labelled(y)

C19_Frame == [][\A x \in Names : Pass(x) => Frame(x)]_vars

\* One pass has created a pod and another has deleted one, both unfinished.
C19_Witness ==
  \E x \in Names : \E y \in Names \ {x} :
    /\ pc[x] = "create" /\ Len(Acked(x, "create")) = 1
    /\ pc[y] = "delete" /\ Len(Acked(y, "delete")) = 1
    /\ Labelled(x) # {} /\ Labelled(y) # {}

====
